---- MODULE Spec2Model ----
(***************************************************************************)
(* append_jira_issue.py: a commit-msg hook that reads the branch name,     *)
(* extracts a Jira issue key from it and rewrites the subject line of the  *)
(* commit message to carry that key.                                       *)
(*                                                                         *)
(* A text (a Python str) is a sequence of one-character strings.           *)
(***************************************************************************)
EXTENDS Integers, Sequences, FiniteSets

VARIABLES
    file,                   \* content of the commit-message file, or NoFile
    pc,                     \* position of main
    git_branch_name,        \* main: git_branch_name
    branch_jira_issue,      \* main: branch_jira_issue
    commit_msg,             \* main: commit_msg
    commit_msg_jira_issue,  \* main: commit_msg_jira_issue
    new_commit_msg,         \* main: new_commit_msg
    outcome,                \* how the invocation ended
    runs,                   \* number of the current invocation
    file0,                  \* history: the file when this invocation started
    io                      \* history: the file operations of all invocations

vars == <<file, pc, git_branch_name, branch_jira_issue, commit_msg,
          commit_msg_jira_issue, new_commit_msg, outcome, runs, file0, io>>

\* ------------------------------------------------------------------ values

\* Python's None; no text equals it, since a text holds one-character strings.
None == <<"None">>

\* A commit-message path that is missing or unreadable: open() raises.
NoFile == <<"NoFile">>

Upper == {"A","B","C","D","E","F","G","H","I","J","K","L","M",
          "N","O","P","Q","R","S","T","U","V","W","X","Y","Z"}

Digit == {"0","1","2","3","4","5","6","7","8","9"}

\* The characters str.strip() and str.lstrip() remove (those TLA+ can write).
WhiteSpace == {" ", "\t", "\n", "\r", "\f"}

\* ------------------------------------------------------------ text helpers

Max(S) == CHOOSE x \in S : \A y \in S : y <= x

Min(S) == CHOOSE x \in S : \A y \in S : x <= y

\* s[i:] of Python, with i counted from 1
From(s, i) == SubSeq(s, i, Len(s))

\* s.startswith(p)
StartsWith(s, p) == Len(p) <= Len(s) /\ SubSeq(s, 1, Len(p)) = p

\* s.find(c) for a character c, counted from 1; 0 when c is not in s
Find(s, c) ==
    LET at == {i \in 1..Len(s) : s[i] = c}
    IN  IF at = {} THEN 0 ELSE Min(at)

\* s.lstrip()
LStrip(s) ==
    LET keep == {i \in 1..Len(s) : s[i] \notin WhiteSpace}
    IN  IF keep = {} THEN <<>> ELSE From(s, Min(keep))

\* s.strip()
Strip(s) ==
    LET keep == {i \in 1..Len(s) : s[i] \notin WhiteSpace}
    IN  IF keep = {} THEN <<>> ELSE SubSeq(s, Min(keep), Max(keep))

\* the number of characters of s from position i on that are all in set C
Run(s, i, C) ==
    LET stop == {j \in i..Len(s) : s[j] \notin C}
    IN  IF stop = {} THEN Len(s) + 1 - i ELSE Min(stop) - i

\* ------------------------------------------------------ extract_jira_issue

\* the wrong pattern [A-Z]+-[0-9]+: a one-letter project key is accepted
MatchIssueAtOneLetter(content, i) ==
    LET n  == Run(content, i, Upper)
        ks == {k \in 1..n : /\ i + k <= Len(content)
                            /\ content[i + k] = "-"
                            /\ Run(content, i + k + 1, Digit) >= 1}
    IN  IF ks = {} THEN 0
        ELSE Max(ks) + 1 + Run(content, i + Max(ks) + 1, Digit)

\* re's attempt to match [A-Z]{2,}-[0-9]+ at position i: the length of the
\* match, 0 when there is none. [A-Z]{2,} is greedy and gives characters back
\* down to two; [0-9]+ is greedy and nothing follows it.
MatchIssueAt(content, i) ==
    LET n  == Run(content, i, Upper)
        ks == {k \in 2..n : /\ i + k <= Len(content)
                            /\ content[i + k] = "-"
                            /\ Run(content, i + k + 1, Digit) >= 1}
    IN  IF ks = {} THEN 0
        ELSE Max(ks) + 1 + Run(content, i + Max(ks) + 1, Digit)

\* re.match in place of re.search: only a key at the start is found
extract_jira_issue_match(content) ==
    IF MatchIssueAt(content, 1) = 0 THEN None
    ELSE SubSeq(content, 1, MatchIssueAt(content, 1))

\* re.search scans the start positions from the left and returns the first
\* match; match.group(0), or None.
extract_jira_issue(content) ==
    LET starts == {i \in 1..Len(content) : MatchIssueAt(content, i) > 0}
    IN  IF starts = {} THEN None
        ELSE SubSeq(content, Min(starts),
                    Min(starts) + MatchIssueAt(content, Min(starts)) - 1)

\* ---------------------------------------------------------- get_commit_msg

\* The first line of text f as `for line in f` yields it: up to and including
\* the first line break, or all of f when it has none.
FirstLine(f) ==
    IF Find(f, "\n") = 0 THEN f ELSE SubSeq(f, 1, Find(f, "\n"))

\* get_commit_msg's loop over the lines of an opened file: the lines that do
\* not start with "#", concatenated.
RECURSIVE get_commit_msg(_)
get_commit_msg(f) ==
    IF f = <<>> THEN <<>>
    ELSE LET line == FirstLine(f)
             rest == From(f, Len(line) + 1)
         IN  IF StartsWith(line, <<"#">>)
             THEN get_commit_msg(rest)
             ELSE line \o get_commit_msg(rest)

\* ------------------------------------------------------- append_jira_issue

\* The alternation of conv_commit_pattern, in its order.
ConvCommitTypes == <<
    <<"b","u","i","l","d">>,
    <<"c","h","o","r","e">>,
    <<"c","i">>,
    <<"d","o","c","s">>,
    <<"f","e","a","t">>,
    <<"f","i","x">>,
    <<"p","e","r","f">>,
    <<"r","e","f","a","c","t","o","r">>,
    <<"r","e","v","e","r","t">>,
    <<"s","t","y","l","e">>,
    <<"t","e","s","t">> >>

\* The rest of conv_commit_pattern, (\(.*\))?: , tried after a type that ends
\* at position p: the position where the match ends, 0 when there is none.
\* The group is tried first; .* is greedy, never crosses a line break, and
\* gives characters back until "):" follows. Without the group, ":" follows
\* the type.
MatchScopeColon(subject, p) ==
    LET dots == Run(subject, p + 2, {subject[j] : j \in 1..Len(subject)} \ {"\n"})
        ds   == {d \in 0..dots : /\ p + 3 + d <= Len(subject)
                                 /\ subject[p + 2 + d] = ")"
                                 /\ subject[p + 3 + d] = ":"}
    IN  IF p + 1 <= Len(subject) /\ subject[p + 1] = "(" /\ ds # {}
        THEN p + 3 + Max(ds)
        ELSE IF p + 1 <= Len(subject) /\ subject[p + 1] = ":"
             THEN p + 1
             ELSE 0

\* conv_commit_pattern.match(subject): the position where the match ends
\* (match.end()), 0 when the subject does not match.
conv_commit_match(subject) ==
    LET ok == {t \in 1..Len(ConvCommitTypes) :
                  /\ StartsWith(subject, ConvCommitTypes[t])
                  /\ MatchScopeColon(subject, Len(ConvCommitTypes[t])) > 0}
    IN  IF ok = {} THEN 0
        ELSE MatchScopeColon(subject, Len(ConvCommitTypes[Min(ok)]))

\* msg.strip().split('\n', 1)
SplitFirstLine(msg) ==
    LET s  == Strip(msg)
        nl == Find(s, "\n")
    IN  IF nl = 0 THEN <<s>> ELSE <<SubSeq(s, 1, nl - 1), From(s, nl + 1)>>

\* subject = lines[0]
Subject(msg) == SplitFirstLine(msg)[1]

\* the remainder joined without stripping it
BodyNotStripped(msg) ==
    LET lines == SplitFirstLine(msg)
    IN  IF Len(lines) > 1 /\ Strip(lines[2]) # <<>>
        THEN <<"\n", "\n">> \o lines[2]
        ELSE <<>>

\* body: a blank line and the stripped remainder, or nothing
Body(msg) ==
    LET lines == SplitFirstLine(msg)
    IN  IF Len(lines) > 1 /\ Strip(lines[2]) # <<>>
        THEN <<"\n", "\n">> \o Strip(lines[2])
        ELSE <<>>

\* the description taken without lstrip()
NewSubjectNoLStrip(subject, issue) ==
    IF conv_commit_match(subject) > 0
    THEN LET colon_index == Find(subject, ":")
             prefix      == SubSeq(subject, 1, colon_index)
             description == From(subject, colon_index + 1)
         IN  prefix \o <<" ">> \o issue \o <<" ">> \o description
    ELSE <<"c","h","o","r","e",":"," ">> \o issue \o <<" ">> \o subject

\* new_subject: the key goes after the first colon of a subject that matches
\* the pattern, and after a synthesized "chore:" otherwise.
NewSubject(subject, issue) ==
    IF conv_commit_match(subject) > 0
    THEN LET colon_index == Find(subject, ":")
             prefix      == SubSeq(subject, 1, colon_index)
             description == LStrip(From(subject, colon_index + 1))
         IN  prefix \o <<" ">> \o issue \o <<" ">> \o description
    ELSE <<"c","h","o","r","e",":"," ">> \o issue \o <<" ">> \o subject

append_jira_issue(msg, issue) == NewSubject(Subject(msg), issue) \o Body(msg)

\* ------------------------------------------------------- write_commit_msg

\* the file opened with "a": the message lands after the old content
write_commit_msg_append(old, msg) == old \o msg

\* open(path, "w") truncates; f.write(commit_msg) is then the whole content.
write_commit_msg(old, msg) == msg

\* -------------------------------------------------------------- run_command

\* What subprocess.check_output does when the command cannot be run or exits
\* with an error (a detached HEAD, no repository): it raises.
CommandFailed == <<"CommandFailed">>

\* run_command: the decoded, stripped stdout, or "" when the command failed.
run_command(out) == IF out = CommandFailed THEN <<>> ELSE Strip(out)

\* Python's truth value of a str | None
Truthy(x) == x # None /\ x # <<>>

\* ------------------------------------------------------------------ inputs

MaxLines == 3

MaxRuns == 2

MaxWords == 5

MaxLen == 6

\* all sequences of at most n members of S, concatenated
RECURSIVE Concats(_, _)
Concats(S, n) ==
    IF n = 0 THEN {<<>>}
    ELSE LET shorter == Concats(S, n - 1)
         IN  shorter \cup {w \o t : w \in shorter, t \in S}

\* s without its last character
Chop(s) == SubSeq(s, 1, Len(s) - 1)

\* lines of a commit-message file, each with its line break
FileLines == {
    <<"#"," ","A","B","-","1","\n">>,
    <<"\n">>,
    <<"M","e","r","g","e"," ","x","\n">>,
    <<"f","i","x",":"," ","x","\n">>,
    <<"c","i","(","a",":","b",")",":","x","\n">>,
    <<"x"," ","#","y","\n">>,
    <<"A","B","-","1"," ","x","\n">> }

\* files of at most MaxLines lines, the last one with or without a line break
Files ==
    LET whole == Concats(FileLines, MaxLines)
    IN  whole \cup {Chop(f) : f \in whole \ {<<>>}}

\* what `git symbolic-ref --short HEAD` prints
BranchOutputs == {
    <<"m","a","i","n","\n">>,
    <<"f","/","A","B","-","1","-","x","\n">>,
    <<"C","D","-","2","2","\n">>,
    <<"A","-","1","\n">> }

\* the pieces the messages given to append_jira_issue are made of; main
\* passes it only messages in which extract_jira_issue found no key
MsgWords == {
    <<"f","i","x">>, <<"(">>, <<")">>, <<":">>, <<" ">>, <<"\n">>, <<"x">> }

Messages == Concats(MsgWords, MaxWords)

IssueKeys == { <<"A","B","-","1">>, <<"C","D","-","2","2">> }

\* the characters the texts given to extract_jira_issue are made of
TextChars == { <<"A">>, <<"B">>, <<"-">>, <<"1">>, <<"a">> }

Texts == Concats(TextChars, MaxLen)

\* -------------------------------------------------------------------- main

Event(op, content) == [run |-> runs, op |-> op, content |-> content]

Init ==
    /\ file \in Files \cup {NoFile}
    /\ pc = "start"
    /\ git_branch_name = <<>>
    /\ branch_jira_issue = None
    /\ commit_msg = <<>>
    /\ commit_msg_jira_issue = None
    /\ new_commit_msg = <<>>
    /\ outcome = "running"
    /\ runs = 1
    /\ file0 = file
    /\ io = <<>>

\* git_branch_name = get_branch_name()
GetBranchName ==
    /\ pc = "start"
    /\ \E out \in BranchOutputs \cup {CommandFailed} :
          git_branch_name' = run_command(out)
    /\ pc' = "extract"
    /\ UNCHANGED <<file, branch_jira_issue, commit_msg, commit_msg_jira_issue,
                   new_commit_msg, outcome, runs, file0, io>>

\* the early return forgotten: main goes on with None as the key
NoIssueFallsThrough ==
    /\ pc = "extract"
    /\ extract_jira_issue(git_branch_name) = None
    /\ branch_jira_issue' = None
    /\ pc' = "load"
    /\ UNCHANGED <<file, git_branch_name, commit_msg, commit_msg_jira_issue,
                   new_commit_msg, outcome, runs, file0, io>>

\* branch_jira_issue is None: return 0
NoIssueReturn ==
    /\ pc = "extract"
    /\ extract_jira_issue(git_branch_name) = None
    /\ branch_jira_issue' = None
    /\ outcome' = "return 0"
    /\ pc' = "done"
    /\ UNCHANGED <<file, git_branch_name, commit_msg, commit_msg_jira_issue,
                   new_commit_msg, runs, file0, io>>

\* branch_jira_issue = extract_jira_issue(git_branch_name), and it is a key
BranchIssue ==
    /\ pc = "extract"
    /\ extract_jira_issue(git_branch_name) # None
    /\ branch_jira_issue' = extract_jira_issue(git_branch_name)
    /\ pc' = "load"
    /\ UNCHANGED <<file, git_branch_name, commit_msg, commit_msg_jira_issue,
                   new_commit_msg, outcome, runs, file0, io>>

\* the error of open() caught and turned into a normal return
LoadSwallows ==
    /\ pc = "load"
    /\ file = NoFile
    /\ outcome' = "return 0"
    /\ pc' = "done"
    /\ UNCHANGED <<file, git_branch_name, branch_jira_issue, commit_msg,
                   commit_msg_jira_issue, new_commit_msg, runs, file0, io>>

\* get_commit_msg: open() raises, and nothing in main catches it
LoadRaises ==
    /\ pc = "load"
    /\ file = NoFile
    /\ outcome' = "raised"
    /\ pc' = "done"
    /\ UNCHANGED <<file, git_branch_name, branch_jira_issue, commit_msg,
                   commit_msg_jira_issue, new_commit_msg, runs, file0, io>>

\* commit_msg = get_commit_msg(args.commit_msg_filepath)
LoadCommitMsg ==
    /\ pc = "load"
    /\ file # NoFile
    /\ commit_msg' = get_commit_msg(file)
    /\ io' = Append(io, Event("read", file))
    /\ pc' = "merge"
    /\ UNCHANGED <<file, git_branch_name, branch_jira_issue,
                   commit_msg_jira_issue, new_commit_msg, outcome, runs, file0>>

\* the merge guard without its return: a merge message goes on
MergeFallsThrough ==
    /\ pc = "merge"
    /\ StartsWith(commit_msg, <<"M","e","r","g","e"," ">>)
    /\ commit_msg_jira_issue' = extract_jira_issue(commit_msg)
    /\ pc' = "tagged"
    /\ UNCHANGED <<file, git_branch_name, branch_jira_issue, commit_msg,
                   new_commit_msg, outcome, runs, file0, io>>

\* commit_msg.startswith("Merge "): return 0
MergeReturn ==
    /\ pc = "merge"
    /\ StartsWith(commit_msg, <<"M","e","r","g","e"," ">>)
    /\ outcome' = "return 0"
    /\ pc' = "done"
    /\ UNCHANGED <<file, git_branch_name, branch_jira_issue, commit_msg,
                   commit_msg_jira_issue, new_commit_msg, runs, file0, io>>

\* commit_msg_jira_issue = extract_jira_issue(commit_msg)
ExtractMsgIssue ==
    /\ pc = "merge"
    /\ ~StartsWith(commit_msg, <<"M","e","r","g","e"," ">>)
    /\ commit_msg_jira_issue' = extract_jira_issue(commit_msg)
    /\ pc' = "tagged"
    /\ UNCHANGED <<file, git_branch_name, branch_jira_issue, commit_msg,
                   new_commit_msg, outcome, runs, file0, io>>

\* the already-tagged guard without its return: the message is rewritten
TaggedFallsThrough ==
    /\ pc = "tagged"
    /\ Truthy(commit_msg_jira_issue)
    /\ new_commit_msg' = append_jira_issue(commit_msg, branch_jira_issue)
    /\ pc' = "write"
    /\ UNCHANGED <<file, git_branch_name, branch_jira_issue, commit_msg,
                   commit_msg_jira_issue, outcome, runs, file0, io>>

\* if commit_msg_jira_issue: return 0
TaggedReturn ==
    /\ pc = "tagged"
    /\ Truthy(commit_msg_jira_issue)
    /\ outcome' = "return 0"
    /\ pc' = "done"
    /\ UNCHANGED <<file, git_branch_name, branch_jira_issue, commit_msg,
                   commit_msg_jira_issue, new_commit_msg, runs, file0, io>>

\* new_commit_msg = append_jira_issue(commit_msg, branch_jira_issue)
Rewrite ==
    /\ pc = "tagged"
    /\ ~Truthy(commit_msg_jira_issue)
    /\ new_commit_msg' = append_jira_issue(commit_msg, branch_jira_issue)
    /\ pc' = "write"
    /\ UNCHANGED <<file, git_branch_name, branch_jira_issue, commit_msg,
                   commit_msg_jira_issue, outcome, runs, file0, io>>

\* write_commit_msg(args.commit_msg_filepath, new_commit_msg); return 0
WriteCommitMsg ==
    /\ pc = "write"
    /\ file' = write_commit_msg(file, new_commit_msg)
    /\ io' = Append(io, Event("write", new_commit_msg))
    /\ outcome' = "return 0"
    /\ pc' = "done"
    /\ UNCHANGED <<git_branch_name, branch_jira_issue, commit_msg,
                   commit_msg_jira_issue, new_commit_msg, runs, file0>>

\* the hook runs again on the same file: main starts with fresh locals
Invoke ==
    /\ pc = "done"
    /\ runs < MaxRuns
    /\ runs' = runs + 1
    /\ pc' = "start"
    /\ git_branch_name' = <<>>
    /\ branch_jira_issue' = None
    /\ commit_msg' = <<>>
    /\ commit_msg_jira_issue' = None
    /\ new_commit_msg' = <<>>
    /\ outcome' = "running"
    /\ file0' = file
    /\ UNCHANGED <<file, io>>

Next ==
    \/ GetBranchName
    \/ NoIssueReturn
    \/ BranchIssue
    \/ LoadRaises
    \/ LoadCommitMsg
    \/ MergeReturn
    \/ ExtractMsgIssue
    \/ TaggedReturn
    \/ Rewrite
    \/ WriteCommitMsg
    \/ Invoke

Spec == Init /\ [][Next]_vars

\* ------------------------------------- extract_jira_issue as a pure function

InitExtract ==
    /\ git_branch_name \in Texts
    /\ pc = "call"
    /\ file = NoFile
    /\ branch_jira_issue = None
    /\ commit_msg = <<>>
    /\ commit_msg_jira_issue = None
    /\ new_commit_msg = <<>>
    /\ outcome = "running"
    /\ runs = 1
    /\ file0 = file
    /\ io = <<>>

\* branch_jira_issue = extract_jira_issue(content), content any text
CallExtract ==
    /\ pc = "call"
    /\ branch_jira_issue' = extract_jira_issue(git_branch_name)
    /\ pc' = "returned"
    /\ UNCHANGED <<file, git_branch_name, commit_msg, commit_msg_jira_issue,
                   new_commit_msg, outcome, runs, file0, io>>

SpecExtract == InitExtract /\ [][CallExtract]_vars

\* -------------------------------------- append_jira_issue as a pure function

InitAppend ==
    /\ commit_msg \in Messages
    /\ branch_jira_issue \in IssueKeys
    /\ pc = "call"
    /\ file = NoFile
    /\ git_branch_name = <<>>
    /\ commit_msg_jira_issue = None
    /\ new_commit_msg = <<>>
    /\ outcome = "running"
    /\ runs = 1
    /\ file0 = file
    /\ io = <<>>

\* new_commit_msg = append_jira_issue(msg, issue), msg any text
CallAppend ==
    /\ pc = "call"
    /\ new_commit_msg' = append_jira_issue(commit_msg, branch_jira_issue)
    /\ pc' = "returned"
    /\ UNCHANGED <<file, git_branch_name, branch_jira_issue, commit_msg,
                   commit_msg_jira_issue, outcome, runs, file0, io>>

SpecAppend == InitAppend /\ [][CallAppend]_vars

\* ------------------------------------------- the notions the claims speak of

Chars(s) == {s[i] : i \in 1..Len(s)}

\* s is an issue key: two or more uppercase letters, a hyphen, one or more digits
IsIssueKey(s) ==
    \E k \in 2..(Len(s) - 2) :
        /\ \A i \in 1..k : s[i] \in Upper
        /\ s[k + 1] = "-"
        /\ \A i \in (k + 2)..Len(s) : s[i] \in Digit

\* where the substrings of t that are issue keys begin and end
KeyPositions(t) ==
    {ij \in (1..Len(t)) \X (1..Len(t)) :
        ij[1] <= ij[2] /\ IsIssueKey(SubSeq(t, ij[1], ij[2]))}

\* some substring of t is an issue key: some hyphen of t follows two uppercase
\* letters and precedes a digit
HasIssueKey(t) ==
    \E h \in 3..(Len(t) - 1) :
        /\ t[h] = "-"
        /\ t[h - 2] \in Upper
        /\ t[h - 1] \in Upper
        /\ t[h + 1] \in Digit

\* position i of f lies in a line that begins with "#"
RECURSIVE InComment(_, _)
InComment(f, i) ==
    IF i = 1 \/ f[i - 1] = "\n" THEN f[i] = "#" ELSE InComment(f, i - 1)

\* the characters of f from position i on that lie in no comment line
RECURSIVE Uncommented(_, _)
Uncommented(f, i) ==
    IF i > Len(f) THEN <<>>
    ELSE (IF InComment(f, i) THEN <<>> ELSE <<f[i]>>) \o Uncommented(f, i + 1)

\* file f without its lines that begin with "#"
LoadedMessage(f) == Uncommented(f, 1)

\* s without its leading and trailing whitespace
RECURSIVE Trimmed(_)
Trimmed(s) ==
    IF s = <<>> THEN s
    ELSE IF s[1] \in WhiteSpace THEN Trimmed(Tail(s))
    ELSE IF s[Len(s)] \in WhiteSpace THEN Trimmed(SubSeq(s, 1, Len(s) - 1))
    ELSE s

\* s up to its first line break, and what follows that line break
BeforeBreak(s) == IF "\n" \in Chars(s) THEN SubSeq(s, 1, Find(s, "\n") - 1) ELSE s

AfterBreak(s) == IF "\n" \in Chars(s) THEN From(s, Find(s, "\n") + 1) ELSE <<>>

\* the subject of a message: the first line of the trimmed message
SubjectOf(msg) == BeforeBreak(Trimmed(msg))

\* where a conventional-commit prefix of the subject can end: a type, an
\* optional scope in parentheses, a colon
PrefixEnds(subject) ==
    {e \in 1..Len(subject) :
        \E n \in 1..Len(ConvCommitTypes) :
            LET p == Len(ConvCommitTypes[n])
            IN  /\ StartsWith(subject, ConvCommitTypes[n])
                /\ subject[e] = ":"
                /\ \/ e = p + 1
                   \/ /\ e >= p + 3
                      /\ subject[p + 1] = "("
                      /\ subject[e - 1] = ")"
                      /\ \A j \in (p + 2)..(e - 2) : subject[j] # "\n"}

\* where key occurs in text
Occurrences(text, key) ==
    {i \in 1..(Len(text) - Len(key) + 1) : SubSeq(text, i, i + Len(key) - 1) = key}

\* the file operations of the current invocation
RunOps ==
    LET mine == SelectSeq(io, LAMBDA e : e.run = runs)
    IN  [k \in 1..Len(mine) |-> mine[k].op]

NoWrite == \A k \in 1..Len(RunOps) : RunOps[k] # "write"

MergePrefix == <<"M","e","r","g","e"," ">>

\* --------------------------------------------------------------- the claims

\* C1: over any sequence of invocations on the same file the rewrite happens
\* at most once: once an invocation has written the file, the file keeps that
\* content, and every later invocation whose branch holds a key reads the
\* message, finds a key in it and returns 0 without writing.
C1_RewriteAtMostOnce ==
    LET w == {i \in 1..Len(io) : io[i].op = "write"}
    IN  /\ Cardinality(w) <= 1
        /\ \A i \in w :
              runs > io[i].run =>
                 /\ file = io[i].content
                 /\ pc = "done" /\ HasIssueKey(git_branch_name) =>
                       /\ outcome = "return 0"
                       /\ RunOps = <<"read">>
                       /\ HasIssueKey(commit_msg)
                       /\ Truthy(commit_msg_jira_issue)

C1_Witness ==
    /\ pc = "done"
    /\ HasIssueKey(git_branch_name)
    /\ \E i \in 1..Len(io) :
          /\ io[i].op = "write"
          /\ io[i].run < runs
          /\ Occurrences(io[i].content, branch_jira_issue) = {}

\* C2: the output of append_jira_issue holds the issue key exactly once, right
\* after the recognized conventional-commit prefix (type, optional scope in
\* parentheses, colon) of the subject, or right after a synthesized "chore:"
\* when the subject has no such prefix.
C2_KeyOnceAfterPrefix ==
    pc = "returned" =>
        LET subject == SubjectOf(commit_msg)
            chore   == <<"c","h","o","r","e",":">>
        IN  /\ Cardinality(Occurrences(new_commit_msg, branch_jira_issue)) = 1
            /\ IF PrefixEnds(subject) # {}
               THEN \E e \in PrefixEnds(subject) :
                       StartsWith(new_commit_msg,
                           SubSeq(subject, 1, e) \o <<" ">> \o branch_jira_issue)
               ELSE StartsWith(new_commit_msg,
                        chore \o <<" ">> \o branch_jira_issue)

\* C3: when the loaded commit message holds an issue key, main returns 0 and
\* leaves the file as it was, whatever key the branch name gives.
C3_AlreadyTagged ==
    pc = "done" /\ file0 # NoFile /\ HasIssueKey(LoadedMessage(file0)) =>
        outcome = "return 0" /\ file = file0 /\ NoWrite

C3_Witness ==
    /\ pc = "done"
    /\ file0 # NoFile
    /\ ~StartsWith(LoadedMessage(file0), MergePrefix)
    /\ HasIssueKey(LoadedMessage(file0))
    /\ HasIssueKey(git_branch_name)
    /\ Truthy(commit_msg_jira_issue)
    /\ commit_msg_jira_issue # branch_jira_issue

\* C4: when the loaded commit message starts with "Merge ", main returns 0 and
\* leaves the file as it was, with or without a key in the branch name.
C4_MergeGuard ==
    pc = "done" /\ file0 # NoFile /\ StartsWith(LoadedMessage(file0), MergePrefix) =>
        outcome = "return 0" /\ file = file0 /\ NoWrite

C4_Witness ==
    /\ pc = "done"
    /\ file0 # NoFile
    /\ StartsWith(LoadedMessage(file0), MergePrefix)
    /\ HasIssueKey(git_branch_name)
    /\ RunOps = <<"read">>

\* C5: when the branch name holds no issue key (the lookup failed and gave "",
\* or the name has no match), main returns 0 and writes nothing.
C5_NoKeyNoWrite ==
    pc = "done" /\ ~HasIssueKey(git_branch_name) =>
        outcome = "return 0" /\ file = file0 /\ NoWrite

C5_Witness ==
    pc = "done" /\ git_branch_name = <<>> /\ outcome = "return 0"

\* C6, as claimed: every invocation whose commit-message path is missing or
\* unreadable ends with the error of open(), not with a normal return, and
\* writes nothing.
C6_MissingFileAlwaysRaises ==
    pc = "done" /\ file0 = NoFile =>
        outcome = "raised" /\ file = NoFile /\ NoWrite

\* C6, amended: every invocation whose branch name holds an issue key and
\* whose commit-message path is missing or unreadable ends with the error of
\* open(), not with a normal return, and writes nothing.
C6_MissingFileRaisesAfterKey ==
    pc = "done" /\ file0 = NoFile /\ HasIssueKey(git_branch_name) =>
        outcome = "raised" /\ file = NoFile /\ NoWrite

C6_Witness ==
    pc = "done" /\ file0 = NoFile /\ outcome = "raised"

\* C7, as claimed: with the first line and the remainder taken from the
\* message as given, the output has no line break when the remainder is empty
\* or all whitespace, and is otherwise a first line, one blank line and the
\* (trimmed) remainder.
C7_BodyOfRawMessage ==
    pc = "returned" =>
        LET rem == AfterBreak(commit_msg)
            out == new_commit_msg
        IN  IF Trimmed(rem) = <<>>
            THEN "\n" \notin Chars(out)
            ELSE /\ "\n" \in Chars(out)
                 /\ AfterBreak(out) = <<"\n">> \o Trimmed(rem)

\* C7, amended: with the first line and the remainder taken from the message
\* trimmed of its leading and trailing whitespace, the output has no line
\* break when there is no remainder, and is otherwise a first line, one blank
\* line and the remainder trimmed of its leading and trailing whitespace.
C7_BodyOfTrimmedMessage ==
    pc = "returned" =>
        LET rem == AfterBreak(Trimmed(commit_msg))
            out == new_commit_msg
        IN  IF Trimmed(rem) = <<>>
            THEN "\n" \notin Chars(out)
            ELSE /\ "\n" \in Chars(out)
                 /\ AfterBreak(out) = <<"\n">> \o Trimmed(rem)

C7_Witness ==
    /\ pc = "returned"
    /\ commit_msg # <<>>
    /\ commit_msg[1] \in WhiteSpace
    /\ commit_msg[Len(commit_msg)] \in WhiteSpace
    /\ "\n" \in Chars(new_commit_msg)

\* C8: extract_jira_issue returns None exactly when no substring of the text
\* is an issue key, and otherwise the substring that is the leftmost match:
\* no key begins before it, and no key that begins with it is longer.
C8_LeftmostMatch ==
    pc = "returned" =>
        LET keys == KeyPositions(git_branch_name)
        IN  /\ branch_jira_issue = None <=> keys = {}
            /\ keys # {} =>
                  \E ij \in keys :
                     /\ branch_jira_issue = SubSeq(git_branch_name, ij[1], ij[2])
                     /\ \A other \in keys :
                           /\ ij[1] <= other[1]
                           /\ other[1] = ij[1] => other[2] <= ij[2]

C8_Witness ==
    /\ pc = "returned"
    /\ branch_jira_issue # None
    /\ \E ij \in KeyPositions(git_branch_name), other \in KeyPositions(git_branch_name) :
          /\ branch_jira_issue = SubSeq(git_branch_name, ij[1], ij[2])
          /\ ij[1] > 1
          /\ other[1] > ij[1]

C10_ReadThenOneOverwrite ==
    /\ RunOps \in {<<>>, <<"read">>, <<"read", "write">>}
    /\ pc = "done" /\ file0 # NoFile /\ HasIssueKey(git_branch_name) =>
          LET loaded == LoadedMessage(file0)
          IN  ~StartsWith(loaded, MergePrefix) /\ ~HasIssueKey(loaded) =>
                 /\ RunOps = <<"read", "write">>
                 /\ outcome = "return 0"
                 /\ file = append_jira_issue(loaded,
                                             extract_jira_issue(git_branch_name))

C10_Witness ==
    /\ pc = "done"
    /\ RunOps = <<"read", "write">>
    /\ file0 # NoFile
    /\ "#" \in Chars(file0)
    /\ Len(LoadedMessage(file0)) > 0
    /\ file # file0

====
